---- MODULE Spec2Model ----
(***************************************************************************)
(* Session Tracker: the entry workflow in its remote variant (App backed   *)
(* by Supabase, src/unnamed/part_000 lines 84-402), its local variant (App *)
(* backed by localStorage, lines 403-674) and the remote store functions   *)
(* of src/src/supabase.ts.                                                 *)
(*                                                                         *)
(* An async handler in flight is an element of `ops`: its pc names the     *)
(* await it is suspended on, and one action is "the awaited answer arrives *)
(* and the code runs up to its next await".  The three programs share no   *)
(* state, so `variant`, fixed by Init, says which one a behaviour runs.    *)
(***************************************************************************)
EXTENDS Integers, Sequences, FiniteSets, Bags, TLC

VARIABLES
  variant,          \* "remote" | "local" | "create": which program runs
  form,             \* useState form: the draft
  sessions,         \* useState sessions: the list
  error,            \* useState error ("" models null)
  identity,         \* the auth collaborator's current session (NoUser: none)
  isAuthenticated,  \* useState isAuthenticated
  isLoading,        \* useState isLoading
  dbSessions,       \* table `sessions`: a set of SessionRow
  dbTasks,          \* table `session_tasks`: a set of TaskRow
  nextId,           \* the store's id / created_at generator
  ops,              \* the async calls in flight: a bag of call records
  started,          \* how many async calls have been started
  storage,          \* localStorage[STORAGE_KEY]
  mountPc,          \* local variant: how far the mount effects have run
  hasUUID,          \* local variant: crypto.randomUUID exists
  nowMs,            \* local variant: Date.now()
  created,          \* local variant: entries handleSave has created
  writes,           \* local variant: the answers localStorage.setItem gave in the last step
  logged,           \* local variant: what the last step wrote with console.error
  uncaught,         \* local variant: an exception has escaped a handler or an effect
  clicked,          \* the handler the user invoked in the last step ("" if none)
  everRows          \* history: every row table `sessions` has held

vars == <<variant, form, sessions, error, identity, isAuthenticated, isLoading,
          dbSessions, dbTasks, nextId, ops, started, storage, mountPc, hasUUID, nowMs, created,
          writes, logged, uncaught, clicked, everRows>>

remoteUI == <<form, sessions, error, isAuthenticated, isLoading>>
localVars == <<storage, mountPc, hasUUID, nowMs, created, writes, logged, uncaught>>
remoteVars == <<identity, isAuthenticated, isLoading, dbSessions, dbTasks, nextId, ops, started, everRows>>

-----------------------------------------------------------------------------
(* Bounds of the model *)

MaxCalls == 3        \* async calls a run starts
MaxRows == 2         \* rows the store ever creates
MaxLocal == 2        \* entries the local variant's handleSave creates
MaxMs == 2           \* milliseconds the local clock runs through

-----------------------------------------------------------------------------
(* Values *)

\* today(): the clock's calendar day; a run stays within one day
today == 1

NoUser == "none"
User == "u1"

\* JavaScript numbers, NaN and null, as one record shape
Num(n) == [t |-> "num", n |-> n]
NaN == [t |-> "NaN", n |-> 0]
Null == [t |-> "null", n |-> 0]
\* a nullable string column
Str(s) == [t |-> "str", s |-> s]
NullStr == [t |-> "null", s |-> ""]

isNaN(x) == x.t = "NaN"

\* Number(value) on the input strings the model types
Number(value) ==
  CASE value = "0" -> Num(0)
    [] value = "2" -> Num(2)
    [] value = "30" -> Num(30)
    [] OTHER -> NaN

\* JSON.stringify of a number: NaN is written as null
JSONvalue(x) == IF isNaN(x) THEN Null ELSE x

defaultPlannedFor(t) == IF t = "Green" THEN 90 ELSE IF t = "Yellow" THEN 45 ELSE 15

initialForm(day) ==
  [id |-> "", date |-> day, sessionType |-> "Green",
   plannedMinutes |-> Num(defaultPlannedFor("Green")), actualMinutes |-> Num(0),
   tasksCompleted |-> Null, energyAfter |-> "Same", notes |-> ""]

-----------------------------------------------------------------------------
(* The draft: setField, handleInputChange, handleSessionTypeChange,        *)
(* handleEnergyChange (the same code in both variants)                     *)

handleInputChange(f, name, value) ==
  IF name \in {"plannedMinutes", "actualMinutes", "tasksCompleted"}
  THEN LET num == IF value = "" THEN NaN ELSE Number(value)
       IN IF name = "tasksCompleted"
          THEN [f EXCEPT !.tasksCompleted = IF value = "" THEN Null ELSE num]
          ELSE [f EXCEPT ![name] = num]
  ELSE IF name \in {"notes", "date"} THEN [f EXCEPT ![name] = value]
  ELSE f

handleSessionTypeChange(f, value) ==
  [f EXCEPT !.sessionType = value, !.plannedMinutes = Num(defaultPlannedFor(value))]

handleEnergyChange(f, value) == [f EXCEPT !.energyAfter = value]

\* handleSave's validation: the message of the first failing rule, "" if none
ValidateNoNaN(f) ==
  IF f.sessionType = "" THEN "Session type is required"
  ELSE IF f.energyAfter = "" THEN "Energy after is required"
  ELSE IF f.actualMinutes.t = "null" THEN "Actual minutes is required"
  ELSE ""

Validate(f) ==
  IF f.sessionType = "" THEN "Session type is required"
  ELSE IF f.energyAfter = "" THEN "Energy after is required"
  ELSE IF f.actualMinutes.t = "null" \/ isNaN(f.actualMinutes)
       THEN "Actual minutes is required"
  ELSE ""

-----------------------------------------------------------------------------
(* The mapping between a SessionEntry and a SessionRow *)

\* saveSessions' argument to createSessionWithTasks
toRowSwapsMinutes(entry, uid) ==
  [session_date |-> entry.date, session_type |-> entry.sessionType,
   planned_minutes |-> entry.actualMinutes, actual_minutes |-> entry.plannedMinutes,
   energy_after |-> entry.energyAfter,
   notes |-> IF entry.notes = "" THEN NullStr ELSE Str(entry.notes),
   user_id |-> uid]

toRow(entry, uid) ==
  [session_date |-> entry.date, session_type |-> entry.sessionType,
   planned_minutes |-> entry.plannedMinutes, actual_minutes |-> entry.actualMinutes,
   energy_after |-> entry.energyAfter,
   notes |-> IF entry.notes = "" THEN NullStr ELSE Str(entry.notes),
   user_id |-> uid]

\* loadSessions' map over the fetched rows
toEntry(s) ==
  [id |-> s.id, date |-> s.session_date, sessionType |-> s.session_type,
   plannedMinutes |-> s.planned_minutes, actualMinutes |-> s.actual_minutes,
   tasksCompleted |-> Null, energyAfter |-> s.energy_after,
   notes |-> IF s.notes.t = "null" \/ s.notes.s = "" THEN "" ELSE s.notes.s]

toEntries(rows) == [k \in 1..Len(rows) |-> toEntry(rows[k])]

\* .order('session_date', desc).order('created_at', desc)
RowBefore(a, b) ==
  \/ a.session_date > b.session_date
  \/ a.session_date = b.session_date /\ a.created_at > b.created_at

RECURSIVE OrderRows(_)
OrderRows(S) ==
  IF S = {} THEN <<>>
  ELSE LET m == CHOOSE r \in S : \A q \in S \ {r} : RowBefore(r, q)
       IN <<m>> \o OrderRows(S \ {m})

\* the row the store makes of an insert: id and created_at are its own, the
\* columns are what the request's JSON carries
NewRow(data) ==
  [id |-> "row" \o ToString(nextId), created_at |-> nextId,
   session_date |-> data.session_date, session_type |-> data.session_type,
   planned_minutes |-> JSONvalue(data.planned_minutes),
   actual_minutes |-> JSONvalue(data.actual_minutes),
   energy_after |-> data.energy_after, notes |-> data.notes, user_id |-> data.user_id]

\* SessionRow's planned_minutes and actual_minutes are numbers, not nullable:
\* the store takes no row that carries null for one of them
Insertable(data) ==
  /\ JSONvalue(data.planned_minutes).t = "num"
  /\ JSONvalue(data.actual_minutes).t = "num"

\* a row an earlier run of the program has stored
OldRow ==
  [id |-> "row0", created_at |-> 0, session_date |-> today, session_type |-> "Yellow",
   planned_minutes |-> Num(45), actual_minutes |-> Num(30), energy_after |-> "Better",
   notes |-> Str("n"), user_id |-> User]

IdsOf(seq) == {seq[k].id : k \in 1..Len(seq)}

-----------------------------------------------------------------------------
(* Async calls: a call in flight is a record; pc names the await it is on, *)
(* the other fields are the locals that live across that await             *)

NoEntry == initialForm(0)
NoData == toRow(NoEntry, "")

Start(kind, pc) ==
  [kind |-> kind, pc |-> pc, sess |-> "unset", entry |-> NoEntry, data |-> NoData,
   tasks |-> <<>>, id |-> "", rows |-> <<>>, i |-> 0]

InFlight == BagToSet(ops)
HasFree == started < MaxCalls
Without(op) == ops (-) SetToBag({op})
Become(op, new) == Without(op) (+) SetToBag({new})
With(new) == ops (+) SetToBag({new})

\* the answer of supabase.auth.getSession(): the session, or none
SessionAnswer == IF identity = NoUser THEN "none" ELSE "session"

Ready == ~isLoading /\ isAuthenticated

-----------------------------------------------------------------------------
(* Remote variant: the service functions' decisions                        *)

\* saveSessions after getSession(): go on to the store, or throw
saveSessionsAuthUnchecked(o) == [go |-> TRUE, thrown |-> ""]

saveSessionsAuth(o) ==
  IF o = "none" THEN [go |-> FALSE, thrown |-> "Not authenticated"]
  ELSE [go |-> TRUE, thrown |-> ""]

\* loadSessions after getSession(): go on to the store, or return []
loadSessionsAuth(o) ==
  IF o = "none" THEN [go |-> FALSE, thrown |-> ""]
  ELSE [go |-> TRUE, thrown |-> ""]

\* createSessionWithTasks' error for an answer of the store
createError(o) ==
  IF o = "error" THEN "createSessionWithTasks failed: Failed to create session: store"
  ELSE IF o = "norow" THEN "createSessionWithTasks failed: Session creation returned no data"
  ELSE "createSessionWithTasks failed: Failed to create tasks: store"

-----------------------------------------------------------------------------
(* Remote variant: what a handler does once its loadSessions() has returned *)

\* setSessions(loaded), then the rest of initializeApp / reload / handleSave /
\* handleDelete
AfterLoadKeepsLoading(op, loaded) ==
  /\ sessions' = loaded
  /\ form' = IF op.kind = "save" THEN initialForm(today) ELSE form
  /\ ops' = Without(op)
  /\ UNCHANGED <<error, isAuthenticated, isLoading>>

AfterLoad(op, loaded) ==
  /\ sessions' = loaded
  /\ isLoading' = IF op.kind = "init" THEN FALSE ELSE isLoading
  /\ form' = IF op.kind = "save" THEN initialForm(today) ELSE form
  /\ ops' = Without(op)
  /\ UNCHANGED <<error, isAuthenticated>>

\* handleSave's catch: setError(message)
SaveFailedResets(op, msg) ==
  /\ error' = msg
  /\ form' = initialForm(today)
  /\ ops' = Without(op)
  /\ UNCHANGED <<sessions, isAuthenticated, isLoading>>

SaveFailed(op, msg) ==
  /\ error' = msg
  /\ ops' = Without(op)
  /\ UNCHANGED <<form, sessions, isAuthenticated, isLoading>>

-----------------------------------------------------------------------------
(* Remote variant: the actions *)

\* initializeApp: its getSession() settles (o: the session, none, or a rejection)
InitGetSession(op, o) ==
  /\ clicked' = ""
  /\ variant = "remote" /\ op.pc = "init_getSession"
  /\ UNCHANGED <<variant, identity, dbSessions, dbTasks, nextId, everRows, started, localVars>>
  /\ UNCHANGED <<form, sessions, error>>
  /\ IF o = "reject"
     THEN /\ isLoading' = FALSE
          /\ ops' = Without(op)
          /\ UNCHANGED isAuthenticated
     ELSE /\ isAuthenticated' = (o = "session")
          /\ IF o = "session"
             THEN /\ ops' = Become(op, [op EXCEPT !.pc = "ld_getSession"])
                  /\ UNCHANGED isLoading
             ELSE /\ ops' = Without(op)
                  /\ isLoading' = FALSE

\* the onAuthStateChange callback, run by the collaborator as the identity
\* becomes s (a sign-in, a sign-out, or a refresh of the same identity)
AuthStateChange(s) ==
  /\ clicked' = ""
  /\ variant = "remote"
  /\ identity' = s
  /\ isAuthenticated' = (s # NoUser)
  /\ IF s # NoUser
     THEN /\ HasFree
          /\ ops' = With(Start("reload", "ld_getSession"))
          /\ started' = started + 1
          /\ UNCHANGED sessions
     ELSE /\ sessions' = <<>>
          /\ UNCHANGED <<ops, started>>
  /\ UNCHANGED <<variant, form, error, isLoading, dbSessions, dbTasks, nextId,
                 everRows, localVars>>

\* loadSessions: its getSession() settles
LoadGetSession(op) ==
  /\ clicked' = ""
  /\ variant = "remote" /\ op.pc = "ld_getSession"
  /\ UNCHANGED <<variant, identity, dbSessions, dbTasks, nextId, everRows, started, localVars>>
  /\ IF loadSessionsAuth(SessionAnswer).go
     THEN /\ ops' = Become(op, [op EXCEPT !.pc = "ld_select", !.sess = SessionAnswer])
          /\ UNCHANGED remoteUI
     ELSE AfterLoad(op, <<>>)

\* fetchSessionsWithTasks: the select on `sessions` is answered
LoadSelect(op, o) ==
  /\ clicked' = ""
  /\ variant = "remote" /\ op.pc = "ld_select"
  /\ UNCHANGED <<variant, identity, dbSessions, dbTasks, nextId, everRows, started, localVars>>
  /\ LET rows == OrderRows(dbSessions)
     IN IF o = "error"
        THEN AfterLoad(op, <<>>)
        ELSE IF rows = <<>>
        THEN AfterLoad(op, toEntries(<<>>))
        ELSE /\ ops' = Become(op, [op EXCEPT !.pc = "ld_tasks", !.rows = rows, !.i = 1])
             /\ UNCHANGED remoteUI

\* fetchSessionsWithTasks: the select on `session_tasks` for rows[i] is answered
\* (the tasks read are dropped by loadSessions' map, and are not kept here)
LoadTasks(op, o) ==
  /\ clicked' = ""
  /\ variant = "remote" /\ op.pc = "ld_tasks"
  /\ UNCHANGED <<variant, identity, dbSessions, dbTasks, nextId, everRows, started, localVars>>
  /\ IF o = "error"
     THEN AfterLoad(op, <<>>)
     ELSE IF op.i = Len(op.rows)
     THEN AfterLoad(op, toEntries(op.rows))
     ELSE /\ ops' = Become(op, [op EXCEPT !.i = op.i + 1])
          /\ UNCHANGED remoteUI

\* the form's inputs, shown once loaded and signed in
EditRemote ==
  /\ clicked' = ""
  /\ variant = "remote" /\ Ready
  /\ \E in \in {<<"actualMinutes", "">>, <<"actualMinutes", "30">>} :
       form' = handleInputChange(form, in[1], in[2])
  /\ UNCHANGED <<variant, sessions, error, identity, isAuthenticated, isLoading,
                 dbSessions, dbTasks, nextId, ops, everRows, started, localVars>>

\* the store creates at most MaxRows rows: after that it answers an insert
\* with an error only, and the model starts no further create
StoreOpen == nextId <= MaxRows

\* the Save button is shown once loaded and signed in
CanSave == Ready /\ HasFree /\ StoreOpen

\* handleSave up to its first await: setError(null), the validation, and
\* saveSessions(form) up to its getSession()
HandleSaveOptimistic ==
  /\ clicked' = "handleSave"
  /\ variant = "remote" /\ CanSave
  /\ UNCHANGED <<variant, form, identity, isAuthenticated, isLoading,
                 dbSessions, dbTasks, nextId, everRows, localVars>>
  /\ IF Validate(form) # ""
     THEN /\ error' = Validate(form)
          /\ UNCHANGED <<ops, started, sessions>>
     ELSE /\ error' = ""
          /\ started' = started + 1
          /\ sessions' = <<form>> \o sessions
          /\ ops' = With([Start("save", "sv_getSession") EXCEPT !.entry = form])

HandleSaveRemote ==
  /\ clicked' = "handleSave"
  /\ variant = "remote" /\ CanSave
  /\ UNCHANGED <<variant, form, sessions, identity, isAuthenticated, isLoading,
                 dbSessions, dbTasks, nextId, everRows, localVars>>
  /\ IF Validate(form) # ""
     THEN /\ error' = Validate(form)
          /\ UNCHANGED <<ops, started>>
     ELSE /\ error' = ""
          /\ started' = started + 1
          /\ ops' = With([Start("save", "sv_getSession") EXCEPT !.entry = form])

\* saveSessions: its getSession() settles; with a session, createSessionWithTasks
\* issues the insert
SaveGetSession(op) ==
  /\ clicked' = ""
  /\ variant = "remote" /\ op.pc = "sv_getSession"
  /\ UNCHANGED <<variant, identity, dbSessions, dbTasks, nextId, everRows, started, localVars>>
  /\ IF saveSessionsAuth(SessionAnswer).go
     THEN /\ ops' = Become(op, [op EXCEPT !.pc = "cr_insert", !.sess = SessionAnswer,
                                          !.data = toRow(op.entry, identity)])
          /\ UNCHANGED remoteUI
     ELSE SaveFailed(op, saveSessionsAuth(SessionAnswer).thrown)

\* what the failed task insert leaves in table `sessions`: the row of this
\* call stays (the catch only rethrows)
SessionsAfterTasksRolledBack(sid) == {r \in dbSessions : r.id # sid}

SessionsAfterTasksFailed(sid) == dbSessions

\* the rows createSessionWithTasks inserts into `session_tasks`
TaskRows(tasks, sid) ==
  {[id |-> sid \o "/" \o ToString(k), session_id |-> sid, task_name |-> tasks[k].task_name,
    sort_order |-> tasks[k].sort_order] : k \in 1..Len(tasks)}

\* createSessionWithTasks has returned or thrown: saveSessions hands that on to
\* handleSave, which goes on to loadSessions() or to its catch; a direct caller
\* keeps the outcome (error: the message thrown, "" if it returned)
CreateSettled(op, sid, thrown) ==
  IF op.kind = "save"
  THEN IF thrown = ""
       THEN /\ ops' = Become(op, [Start("save", "ld_getSession") EXCEPT
                                    !.id = sid, !.entry = op.entry])
            /\ UNCHANGED remoteUI
       ELSE SaveFailed(op, thrown)
  ELSE /\ ops' = Without(op)
       /\ error' = thrown
       /\ UNCHANGED <<form, sessions, isAuthenticated, isLoading>>

\* createSessionWithTasks: the insert into `sessions` is answered
CreateInsert(op, o) ==
  /\ clicked' = ""
  /\ variant \in {"remote", "create"} /\ op.pc = "cr_insert"
  /\ UNCHANGED <<variant, identity, dbTasks, started, localVars>>
  /\ o = "ok" => (StoreOpen /\ Insertable(op.data))
  /\ IF o = "ok"
     THEN LET row == NewRow(op.data)
          IN /\ dbSessions' = dbSessions \cup {row}
             /\ everRows' = everRows \cup {row}
             /\ nextId' = nextId + 1
             /\ IF Len(op.tasks) > 0
                THEN /\ ops' = Become(op, [op EXCEPT !.pc = "cr_tasks", !.id = row.id])
                     /\ UNCHANGED remoteUI
                ELSE CreateSettled(op, row.id, "")
     ELSE /\ UNCHANGED <<dbSessions, nextId, everRows>>
          /\ CreateSettled(op, "", createError(o))

\* createSessionWithTasks: the batch insert into `session_tasks` is answered
CreateTasks(op, o) ==
  /\ clicked' = ""
  /\ variant \in {"remote", "create"} /\ op.pc = "cr_tasks"
  /\ UNCHANGED <<variant, identity, nextId, everRows, started, localVars>>
  /\ IF o = "ok"
     THEN /\ dbTasks' = dbTasks \cup TaskRows(op.tasks, op.id)
          /\ UNCHANGED dbSessions
          /\ CreateSettled(op, op.id, "")
     ELSE /\ dbSessions' = SessionsAfterTasksFailed(op.id)
          /\ UNCHANGED dbTasks
          /\ CreateSettled(op, op.id, createError("tasksError"))

\* a Delete button of the list: handleDelete up to its await
HandleDeleteRemote(id) ==
  /\ clicked' = "handleDelete"
  /\ variant = "remote" /\ Ready /\ HasFree
  /\ id \in IdsOf(sessions)
  /\ started' = started + 1
  /\ ops' = With([Start("delete", "del_delete") EXCEPT !.id = id])
  /\ UNCHANGED <<variant, remoteUI, identity, dbSessions, dbTasks, nextId,
                 everRows, localVars>>

\* handleDelete: the store's delete is answered, with a result ({error} or not,
\* which the code does not read) or with a rejection
DeleteAnswered(op, o) ==
  /\ clicked' = ""
  /\ variant = "remote" /\ op.pc = "del_delete"
  /\ dbSessions' = IF o = "ok" THEN {r \in dbSessions : r.id # op.id} ELSE dbSessions
  /\ ops' = IF o = "reject" THEN Without(op) ELSE Become(op, [op EXCEPT !.pc = "ld_getSession"])
  /\ UNCHANGED <<variant, remoteUI, identity, dbTasks, nextId, everRows, started, localVars>>

-----------------------------------------------------------------------------
(* Local variant: localStorage[STORAGE_KEY] and the two helpers            *)

\* what getItem returns: null (absent), '' (empty), or a text, which is not
\* JSON (garbage), JSON but no array (nonarray), or the JSON of an array v
Absent == [t |-> "absent", v |-> <<>>]
ArrayText(v) == [t |-> "array", v |-> v]

JSONentry(e) ==
  [e EXCEPT !.plannedMinutes = JSONvalue(@), !.actualMinutes = JSONvalue(@),
            !.tasksCompleted = JSONvalue(@)]

JSONstringify(entries) == ArrayText([k \in 1..Len(entries) |-> JSONentry(entries[k])])

\* loadSessions() on storage content raw: the entries returned, and whether
\* an exception leaves the function (JSON.parse throws on a text that is not
\* JSON)
loadSessionsNoCatch(raw) ==
  IF raw.t \in {"absent", "empty"} THEN [entries |-> <<>>, threw |-> FALSE]
  ELSE IF raw.t = "garbage" THEN [entries |-> <<>>, threw |-> TRUE]
  ELSE IF raw.t = "nonarray" THEN [entries |-> <<>>, threw |-> FALSE]
  ELSE [entries |-> raw.v, threw |-> FALSE]

loadSessions(raw) ==
  IF raw.t \in {"absent", "empty"} THEN [entries |-> <<>>, threw |-> FALSE]
  ELSE IF raw.t = "garbage" THEN [entries |-> <<>>, threw |-> FALSE]
  ELSE IF raw.t = "nonarray" THEN [entries |-> <<>>, threw |-> FALSE]
  ELSE [entries |-> raw.v, threw |-> FALSE]

\* saveSessions(entries) on storage content `store`, setItem accepting the
\* write (ok) or throwing: the content after, what console.error got, and
\* whether an exception leaves the function
saveSessionsRethrows(store, entries, ok) ==
  IF ok THEN [storage |-> JSONstringify(entries), logged |-> "", threw |-> FALSE]
  ELSE [storage |-> store, logged |-> "Failed to save sessions to localStorage", threw |-> TRUE]

saveSessions(store, entries, ok) ==
  IF ok THEN [storage |-> JSONstringify(entries), logged |-> "", threw |-> FALSE]
  ELSE [storage |-> store, logged |-> "Failed to save sessions to localStorage", threw |-> FALSE]

\* an entry an earlier run of the program has persisted
OldEntry == [initialForm(today) EXCEPT !.id = "old", !.actualMinutes = Num(30)]

InitialStorage ==
  {Absent, [t |-> "empty", v |-> <<>>], [t |-> "garbage", v |-> <<>>],
   [t |-> "nonarray", v |-> <<>>], ArrayText(<<>>), ArrayText(<<OldEntry>>)}

\* handleSave's id: crypto.randomUUID() if there is one, else String(Date.now())
NewId == IF hasUUID THEN "uuid" \o ToString(created + 1) ELSE ToString(nowMs)

Mounted == variant = "local" /\ mountPc = "ready"

-----------------------------------------------------------------------------
(* Local variant: the actions *)

\* the effects of the first commit, in order: loadSessions() and
\* setSessions(loaded); then saveSessions(sessions) with the list of the first
\* render, which is []
MountEffects(ok) ==
  /\ variant = "local" /\ mountPc = "effects"
  /\ LET w == saveSessions(storage, <<>>, ok)
         l == loadSessions(storage)
     IN /\ sessions' = l.entries
        /\ storage' = w.storage
        /\ logged' = w.logged
        /\ uncaught' = (uncaught \/ l.threw \/ w.threw)
        /\ writes' = <<ok>>
  /\ mountPc' = "rerender"
  /\ clicked' = ""
  /\ UNCHANGED <<variant, form, error, hasUUID, nowMs, created, remoteVars>>

\* the render with the loaded list: `sessions` is a new array, so the second
\* effect runs again
MountRerender(ok) ==
  /\ variant = "local" /\ mountPc = "rerender"
  /\ LET w == saveSessions(storage, sessions, ok)
     IN /\ storage' = w.storage
        /\ logged' = w.logged
        /\ uncaught' = (uncaught \/ w.threw)
        /\ writes' = <<ok>>
  /\ mountPc' = "ready"
  /\ clicked' = ""
  /\ UNCHANGED <<variant, form, sessions, error, hasUUID, nowMs, created, remoteVars>>

EditLocal ==
  /\ Mounted
  /\ \E in \in {<<"plannedMinutes", "">>, <<"actualMinutes", "">>, <<"actualMinutes", "0">>} :
       form' = handleInputChange(form, in[1], in[2])
  /\ clicked' = "" /\ writes' = <<>> /\ logged' = ""
  /\ UNCHANGED <<variant, sessions, error, storage, mountPc, hasUUID, nowMs, created,
                 uncaught, remoteVars>>

\* handleSave, and the effect of the render it causes: saveSessions(next) runs
\* twice, in the handler (ok1) and in the effect (ok2)
HandleSaveLocal(ok1, ok2) ==
  /\ Mounted /\ created < MaxLocal
  /\ clicked' = "handleSave"
  /\ UNCHANGED <<variant, mountPc, hasUUID, nowMs, remoteVars>>
  /\ IF Validate(form) # ""
     THEN /\ error' = Validate(form)
          /\ writes' = <<>> /\ logged' = ""
          /\ UNCHANGED <<form, sessions, storage, created, uncaught>>
     ELSE LET entry == [form EXCEPT !.id = NewId]
              next == <<entry>> \o sessions
              w1 == saveSessions(storage, next, ok1)
              w2 == saveSessions(w1.storage, next, ok2)
          IN /\ error' = ""
             /\ sessions' = next
             /\ storage' = w2.storage
             /\ logged' = IF w1.logged # "" THEN w1.logged ELSE w2.logged
             /\ uncaught' = (uncaught \/ w1.threw \/ w2.threw)
             /\ writes' = <<ok1, ok2>>
             /\ form' = initialForm(today)
             /\ created' = created + 1

\* handleDelete, and the effect of the render it causes
HandleDeleteLocal(id, ok) ==
  /\ Mounted
  /\ id \in IdsOf(sessions)
  /\ clicked' = "handleDelete"
  /\ LET next == SelectSeq(sessions, LAMBDA s : s.id # id)
         w == saveSessions(storage, next, ok)
     IN /\ sessions' = next
        /\ storage' = w.storage
        /\ logged' = w.logged
        /\ uncaught' = (uncaught \/ w.threw)
        /\ writes' = <<ok>>
  /\ UNCHANGED <<variant, form, error, mountPc, hasUUID, nowMs, created, remoteVars>>

\* a millisecond passes (it shows only where String(Date.now()) is the id)
TickMs ==
  /\ Mounted /\ ~hasUUID /\ nowMs < MaxMs
  /\ nowMs' = nowMs + 1
  /\ clicked' = "" /\ writes' = <<>> /\ logged' = ""
  /\ UNCHANGED <<variant, form, sessions, error, storage, mountPc, hasUUID, created,
                 uncaught, remoteVars>>

-----------------------------------------------------------------------------
(* The store functions called on their own *)

TaskInputs == {<<>>, <<[task_name |-> "a", sort_order |-> 1]>>,
               <<[task_name |-> "a", sort_order |-> 1], [task_name |-> "b", sort_order |-> 2]>>}

DataInputs == {toRow(initialForm(1), User),
               toRow([initialForm(2) EXCEPT !.sessionType = "Red", !.notes = "n"], User)}

\* a caller starts createSessionWithTasks(sessionData, tasks)
CallCreate(data, tasks) ==
  /\ clicked' = ""
  /\ variant = "create" /\ HasFree /\ StoreOpen
  /\ started' = started + 1
  /\ ops' = With([Start("create", "cr_insert") EXCEPT !.data = data, !.tasks = tasks])
  /\ error' = ""
  /\ UNCHANGED <<variant, form, sessions, isAuthenticated, isLoading, identity,
                 dbSessions, dbTasks, nextId, everRows, localVars>>

-----------------------------------------------------------------------------
(* The specification *)

Init ==
  /\ variant \in {"remote", "local", "create"}
  /\ form = initialForm(today)
  /\ sessions = <<>>
  /\ error = ""
  /\ identity \in (IF variant = "remote" THEN {NoUser, User} ELSE {User})
  /\ isAuthenticated = FALSE
  /\ isLoading = TRUE
  /\ dbSessions \in (IF variant = "remote" THEN {{}, {OldRow}} ELSE {{}})
  /\ dbTasks = {}
  /\ nextId = 1
  /\ ops = IF variant = "remote" THEN SetToBag({Start("init", "init_getSession")}) ELSE EmptyBag
  /\ started = IF variant = "remote" THEN 1 ELSE 0
  /\ storage \in (IF variant = "local" THEN InitialStorage ELSE {Absent})
  /\ mountPc = IF variant = "local" THEN "effects" ELSE "none"
  /\ hasUUID \in (IF variant = "local" THEN BOOLEAN ELSE {FALSE})
  /\ nowMs = 1
  /\ created = 0
  /\ writes = <<>>
  /\ logged = ""
  /\ uncaught = FALSE
  /\ clicked = ""
  /\ everRows = dbSessions

Next ==
  \/ \E op \in InFlight, o \in {SessionAnswer, "reject"} : InitGetSession(op, o)
  \/ \E s \in {NoUser, User} : AuthStateChange(s)
  \/ \E op \in InFlight : LoadGetSession(op)
  \/ \E op \in InFlight, o \in {"ok", "error"} : LoadSelect(op, o)
  \/ \E op \in InFlight, o \in {"ok", "error"} : LoadTasks(op, o)
  \/ EditRemote
  \/ HandleSaveRemote
  \/ \E op \in InFlight : SaveGetSession(op)
  \/ \E op \in InFlight, o \in {"ok", "error", "norow"} : CreateInsert(op, o)
  \/ \E op \in InFlight, o \in {"ok", "error"} : CreateTasks(op, o)
  \/ \E id \in IdsOf(sessions) : HandleDeleteRemote(id)
  \/ \E op \in InFlight, o \in {"ok", "error", "reject"} : DeleteAnswered(op, o)
  \/ \E data \in DataInputs, tasks \in TaskInputs : CallCreate(data, tasks)
  \/ \E ok \in BOOLEAN : MountEffects(ok)
  \/ \E ok \in BOOLEAN : MountRerender(ok)
  \/ EditLocal
  \/ \E ok1 \in BOOLEAN, ok2 \in BOOLEAN : HandleSaveLocal(ok1, ok2)
  \/ \E id \in IdsOf(sessions), ok \in BOOLEAN : HandleDeleteLocal(id, ok)
  \/ TickMs

Spec == Init /\ [][Next]_vars
-----------------------------------------------------------------------------
(* The remote variant with every field of the draft edited, the identity   *)
(* present, the reads answered, and a user who edits and saves while no    *)
(* call is in flight: the way of a draft through saveSessions, the store   *)
(* and loadSessions                                                        *)

EditFields ==
  /\ clicked' = ""
  /\ variant = "remote" /\ Ready /\ ops = EmptyBag
  /\ \/ \E in \in {<<"plannedMinutes", "">>, <<"tasksCompleted", "2">>, <<"notes", "n">>} :
          form' = handleInputChange(form, in[1], in[2])
     \/ form' = handleSessionTypeChange(form, "Red")
     \/ form' = handleEnergyChange(form, "Worse")
  /\ form' # form
  /\ UNCHANGED <<variant, sessions, error, identity, isAuthenticated, isLoading,
                 dbSessions, dbTasks, nextId, ops, everRows, started, localVars>>

InitFields == Init /\ variant = "remote" /\ identity = User /\ dbSessions = {}

NextFields ==
  \/ \E op \in InFlight : InitGetSession(op, SessionAnswer)
  \/ \E op \in InFlight : LoadGetSession(op)
  \/ \E op \in InFlight : LoadSelect(op, "ok")
  \/ \E op \in InFlight : LoadTasks(op, "ok")
  \/ EditFields
  \/ (ops = EmptyBag /\ HandleSaveRemote)
  \/ \E op \in InFlight : SaveGetSession(op)
  \/ \E op \in InFlight, o \in {"ok", "error"} : CreateInsert(op, o)

SpecFields == InitFields /\ [][NextFields]_vars

-----------------------------------------------------------------------------
(* The remote variant with every call of initializeApp settling: each     *)
(* await of initializeApp (its getSession(), and the getSession() and the  *)
(* selects of its loadSessions()) is answered eventually                   *)

InitSettles ==
  \/ \E op \in InFlight, o \in {SessionAnswer, "reject"} : InitGetSession(op, o)
  \/ \E op \in InFlight : op.kind = "init" /\ LoadGetSession(op)
  \/ \E op \in InFlight, o \in {"ok", "error"} : op.kind = "init" /\ LoadSelect(op, o)
  \/ \E op \in InFlight, o \in {"ok", "error"} : op.kind = "init" /\ LoadTasks(op, o)

InitRemote == Init /\ variant = "remote"

NextRemote ==
  \/ \E op \in InFlight, o \in {SessionAnswer, "reject"} : InitGetSession(op, o)
  \/ \E s \in {NoUser, User} : AuthStateChange(s)
  \/ \E op \in InFlight : LoadGetSession(op)
  \/ \E op \in InFlight, o \in {"ok", "error"} : LoadSelect(op, o)
  \/ \E op \in InFlight, o \in {"ok", "error"} : LoadTasks(op, o)
  \/ EditRemote
  \/ HandleSaveRemote
  \/ \E op \in InFlight : SaveGetSession(op)
  \/ \E op \in InFlight, o \in {"ok", "error", "norow"} : CreateInsert(op, o)
  \/ \E id \in IdsOf(sessions) : HandleDeleteRemote(id)
  \/ \E op \in InFlight, o \in {"ok", "error", "reject"} : DeleteAnswered(op, o)

SpecLive == InitRemote /\ [][NextRemote]_vars /\ WF_vars(InitSettles)

-----------------------------------------------------------------------------
(* Vocabulary of the properties *)

LoadPcs == {"ld_getSession", "ld_select", "ld_tasks"}
SavePcs == {"sv_getSession", "cr_insert", "cr_tasks"}

\* the step ends the call op: its handler returns or throws
Ends(op) == ops' = Without(op)

\* the saves whose saveSessions() has not settled
SavesInFlight == {op \in InFlight : op.kind = "save" /\ op.pc \in SavePcs}

WriteRejected(ws) == \E k \in DOMAIN ws : ~ws[k]

-----------------------------------------------------------------------------
(* C1 *)

\* C1 (as the specification states it): once a delete(id) has completed, the
\* list and a later load do not hold an entry with that id.  Remote: the step
\* that ends handleDelete after its reload leaves no entry with the deleted id
\* in the list.  Local: after handleDelete and its effect, loadSessions() of the
\* storage holds none of the ids the step removed from the list.
C1_DeletedNeverReturns ==
  [][/\ \A op \in InFlight :
          (variant = "remote" /\ op.kind = "delete" /\ op.pc \in LoadPcs /\ Ends(op))
          => op.id \notin IdsOf(sessions')
     /\ (variant = "local" /\ clicked' = "handleDelete")
          => \A id \in IdsOf(sessions) \ IdsOf(sessions') :
               id \notin IdsOf(loadSessions(storage').entries)]_vars

-----------------------------------------------------------------------------
(* C2 *)

-----------------------------------------------------------------------------
(* C3 *)

\* C3 (as the specification states it): while the identity is signed out the
\* workflow is unauthenticated and its list is empty.
C3_SignedOutStaysEmpty ==
  (variant = "remote" /\ identity = NoUser) => (sessions = <<>> /\ ~isAuthenticated)

-----------------------------------------------------------------------------
(* C4 *)

\* C4 (as the specification states it): at most one save is in flight.
C4_AtMostOneSaveInFlight ==
  /\ Cardinality(SavesInFlight) <= 1
  /\ \A op \in SavesInFlight : ops[op] = 1

-----------------------------------------------------------------------------
(* C5 *)

\* C5 (amended): the list changes only as a sign-out is handled or a
\* loadSessions() returns; it then is empty, or it is the rows the returning
\* call's select read, in the store's order.  A handleSave click leaves the
\* list as it is, and every entry displayed is a row the store has held.
C5_ListIsWhatAReloadRead ==
  /\ [](variant = "remote" => \A k \in 1..Len(sessions) :
                                 \E r \in everRows : sessions[k] = toEntry(r))
  /\ [][(variant = "remote" /\ sessions' # sessions)
        => \/ sessions' = <<>>
           \/ \E op \in InFlight :
                /\ op.pc = "ld_tasks" /\ Ends(op)
                /\ sessions' = toEntries(op.rows)]_vars

\* the list shows a stored row while the create of another save is in flight
C5_Witness ==
  /\ variant = "remote" /\ sessions # <<>>
  /\ \E op \in InFlight : op.kind = "save" /\ op.pc = "cr_insert"

\* C5 (as the specification states it): as a reload completes, failed or not,
\* the list is the store's rows as of that reload's select.
C5_ListEqualsStoreAtReload ==
  [][\A op \in InFlight :
       (variant = "remote" /\ op.pc \in {"ld_select", "ld_tasks"} /\ Ends(op))
       => sessions' = toEntries(IF op.pc = "ld_select" THEN OrderRows(dbSessions)
                                ELSE op.rows)]_vars

-----------------------------------------------------------------------------
(* C6 *)

\* C6: a handleSave click with actualMinutes NaN sets the validation error and
\* does nothing else: draft, list, tables and storage are unchanged, no call
\* is started and no storage write is attempted.
C6_NaNActualRejected ==
  [][(clicked' = "handleSave" /\ isNaN(form.actualMinutes))
     => /\ error' = "Actual minutes is required"
        /\ writes' = <<>>
        /\ UNCHANGED <<form, sessions, dbSessions, dbTasks, storage, ops, started,
                       created>>]_vars

C6_Witness ==
  /\ clicked = "handleSave" /\ isNaN(form.actualMinutes)
  /\ error = "Actual minutes is required"

-----------------------------------------------------------------------------
(* C7 *)

\* C7: a failing save (validation, no identity, the create rejected) sets the
\* error message and leaves the draft as it is; apart from the inputs, the
\* draft changes only as a handleSave whose row the store has created ends
\* after its reload, and then to the fresh default.
C7_DraftKeptOnFailure ==
  [][variant = "remote" =>
     /\ (clicked' = "handleSave" /\ Validate(form) # "")
        => (error' = Validate(form) /\ form' = form)
     /\ \A op \in InFlight :
          /\ (SaveGetSession(op) /\ identity = NoUser)
             => (error' = "Not authenticated" /\ form' = form)
          /\ \A o \in {"error", "norow"} :
               (op.kind = "save" /\ CreateInsert(op, o))
               => (error' = createError(o) /\ form' = form)
     /\ (form' # form)
        => \/ EditRemote
           \/ \E op \in InFlight :
                /\ op.kind = "save" /\ op.pc \in LoadPcs /\ Ends(op)
                /\ \E r \in everRows : r.id = op.id
                /\ form' = initialForm(today)]_vars

\* the store rejected the create of an edited draft, which is still there
C7_Witness ==
  /\ variant = "remote"
  /\ error = createError("error")
  /\ form = [initialForm(today) EXCEPT !.actualMinutes = Num(30)]
  /\ SavesInFlight = {}

-----------------------------------------------------------------------------
(* C8 *)

\* C8: createSessionWithTasks inserts the tasks only after its session row
\* is in the table; a failed session insert (an error, or no row) writes no
\* task and throws; a failed task insert throws and leaves the session row.
C8_CreateOrderNoRollback ==
  /\ [](/\ \A t \in dbTasks : \E r \in dbSessions : r.id = t.session_id
        /\ \A op \in InFlight : op.pc = "cr_tasks" => \E r \in dbSessions : r.id = op.id)
  /\ [][\A op \in InFlight :
          /\ \A o \in {"error", "norow"} :
               (op.kind = "create" /\ CreateInsert(op, o))
               => /\ Ends(op) /\ error' = createError(o)
                  /\ UNCHANGED <<dbSessions, dbTasks>>
          /\ (op.kind = "create" /\ CreateTasks(op, "error"))
             => /\ Ends(op) /\ error' = createError("tasksError")
                /\ dbTasks' = dbTasks
                /\ \E r \in dbSessions' : r.id = op.id
          /\ (op.kind = "create" /\ CreateTasks(op, "ok"))
             => /\ Ends(op) /\ error' = ""
                /\ dbTasks' \ dbTasks = TaskRows(op.tasks, op.id)]_vars

\* the task insert failed, and the session row is in the table with no task
C8_Witness ==
  /\ variant = "create"
  /\ error = createError("tasksError")
  /\ dbSessions # {} /\ dbTasks = {}

-----------------------------------------------------------------------------
(* C9 *)

\* C9 (as the specification states it): after a handleSave whose writes the
\* storage accepted, loadSessions() returns the list that was saved.
C9_RoundTrip ==
  (variant = "local" /\ clicked = "handleSave" /\ writes = <<TRUE, TRUE>>)
  => loadSessions(storage).entries = sessions

-----------------------------------------------------------------------------
(* C10 *)

-----------------------------------------------------------------------------
(* C11 *)

\* C11 (as the specification states it): in the local variant no two entries
\* of the list share an id, so that handleDelete removes one entry at a time.
C11_LocalIdsUnique ==
  variant = "local" => \A i, j \in 1..Len(sessions) :
                         i # j => sessions[i].id # sessions[j].id
-----------------------------------------------------------------------------
(* C12 *)

-----------------------------------------------------------------------------
(* C13 *)

BadPayloads == {r \in InitialStorage : r.t # "array"}

\* C13: on a payload that is absent, empty, not JSON, or JSON but no array,
\* loadSessions() returns [] and throws nothing: the mount's first effect
\* leaves the list empty and no exception escapes it.
C13_LoadBadPayload ==
  [][(variant = "local" /\ mountPc = "effects" /\ mountPc' = "rerender"
      /\ storage \in BadPayloads)
     => /\ loadSessions(storage) = [entries |-> <<>>, threw |-> FALSE]
        /\ sessions' = <<>>
        /\ ~uncaught']_vars

\* the first effect has loaded a text that is not JSON, which is still stored
C13_Witness ==
  /\ variant = "local" /\ mountPc = "rerender"
  /\ storage.t = "garbage"
  /\ sessions = <<>> /\ ~uncaught
-----------------------------------------------------------------------------
(* C14 *)

\* C14 (as the specification states it): while the local variant mounts, a
\* storage that holds the JSON of an array keeps its content.
C14_MountKeepsStorage ==
  [][(variant = "local" /\ mountPc # "ready" /\ storage.t = "array")
     => storage' = storage]_vars
-----------------------------------------------------------------------------
(* C15 *)

\* C15: in the remote variant, with every call of initializeApp settling,
\* isLoading becomes false (the render then shows the sign-in notice or the
\* form and the list), and once false it stays false.
C15_LeavesLoading ==
  /\ <>(~isLoading)
  /\ [][~isLoading => ~isLoading']_vars

\* initializeApp has ended with the identity present and the stored row listed
C15_Witness ==
  /\ variant = "remote" /\ ~isLoading /\ isAuthenticated
  /\ sessions # <<>>
  /\ \A op \in InFlight : op.kind # "init"
====
